---- MODULE Spec2Model ----
(***************************************************************************)
(* Model of the Lighthouse batch-audit service: the audit API handler      *)
(* (session store, submit, background pipeline, sweeper) and               *)
(* LighthouseService.auditUrl / generateAIInsights.                        *)
(*                                                                         *)
(* Every action is one run-to-completion slice of the single-threaded      *)
(* event loop: a handler or a continuation runs from one await to the      *)
(* next without interleaving, so a status poll can observe exactly the     *)
(* states between two actions.                                             *)
(*                                                                         *)
(* Time is counted in days.                                                *)
(***************************************************************************)
EXTENDS Integers, Sequences, FiniteSets, TLC

VARIABLES
    auditSessions,      \* the Map sessionId -> session record
    task,               \* sessionId -> the processAuditAsync invocation started for it
    now,                \* Date.now()
    lastSweep,          \* time of the latest run of the sweep callback (0: none yet)
    isServerless,       \* process.env.VERCEL || process.env.AWS_LAMBDA_FUNCTION_NAME
    runtimeAvailable,   \* whether a Chrome installation can be launched on this host
    response,           \* the latest response sent by a request handler
    probe               \* a call of a function of the service on its own: its
                        \* argument and, once it has returned, its value

vars == <<auditSessions, task, now, lastSweep, isServerless, runtimeAvailable, response,
          probe>>

(***************************************************************************)
(* Bounds of the model.                                                    *)
(***************************************************************************)
StartTime == 1          \* Date.now() when the module is loaded
MaxTicks == 2           \* the clock advances at most this many units
MaxSessions == 1        \* accepted submits
MaxRandLen == 1         \* digits kept of Math.random().toString(36).substr(2)

(***************************************************************************)
(* Program constants.                                                      *)
(***************************************************************************)
Radix == 36             \* toString(36) / parseInt(sessionId, 36)
RetentionWindow == 1    \* 24 * 60 * 60 * 1000 ms = 1 day

\* An optional value (a field that may be undefined / absent).
None == <<>>
Some(v) == <<v>>

(***************************************************************************)
(* URLs.  new URL(s) is modelled by its outcome on the strings the model   *)
(* submits: it succeeds exactly on the strings that carry a scheme.        *)
(***************************************************************************)
UrlSyntax ==
    [u \in {"https://good.example", "https://slow.example", "not-a-url", "/relative/path"} |->
        CASE u = "https://good.example" -> [scheme |-> Some("https"), hostname |-> <<"good", ".", "example">>]
          [] u = "https://slow.example" -> [scheme |-> Some("https"), hostname |-> <<"slow", ".", "example">>]
          [] u = "not-a-url"            -> [scheme |-> None, hostname |-> <<>>]
          [] u = "/relative/path"       -> [scheme |-> None, hostname |-> <<>>]]

\* The sites of the model: slow.example may or may not answer page.goto within its
\* 45 s bound, good.example always does.
NavOutcomes(u) == IF u = "https://slow.example" THEN BOOLEAN ELSE {TRUE}

\* try { new URL(url); return true } catch { return false }
IsValidUrl(u) == UrlSyntax[u].scheme # None

\* Mutation of FilterValid: a filter that also drops repeated URLs.
DedupeValid(urls) ==
    LET v == SelectSeq(urls, IsValidUrl)
        keep == {k \in 1..Len(v) : \A m \in 1..(k - 1) : v[m] # v[k]}
    IN  [k \in 1..Cardinality(keep) |->
            v[CHOOSE m \in keep : Cardinality({n \in keep : n < m}) = k - 1]]

\* urls.filter(url => valid)
FilterValid(urls) == SelectSeq(urls, IsValidUrl)

(***************************************************************************)
(* Session ids: Date.now().toString(36) + Math.random().toString(36)       *)
(* .substr(2), a string of base-36 digits (each digit modelled by its      *)
(* value).                                                                 *)
(***************************************************************************)
RECURSIVE ToBase36(_)
ToBase36(n) == IF n < Radix THEN <<n>> ELSE ToBase36(n \div Radix) \o <<n % Radix>>

RECURSIVE ParseDigits(_, _)
ParseDigits(s, acc) ==
    IF s = <<>> THEN acc ELSE ParseDigits(Tail(s), acc * Radix + Head(s))

\* parseInt(s, 36) on a non-empty string of base-36 digits: the whole string is read.
ParseInt36(s) == ParseDigits(s, 0)

\* The fractional digits of Math.random() in base 36: no trailing zero digit;
\* the empty string when Math.random() returns 0.
RandDigits == {0, 7}
RandStrings ==
    {r \in UNION {[1..n -> RandDigits] : n \in 0..MaxRandLen} :
        Len(r) = 0 \/ r[Len(r)] # 0}

generateSessionId(t, r) == ToBase36(t) \o r

Times == StartTime..(StartTime + MaxTicks)
AllIds == {generateSessionId(t, r) : t \in Times, r \in RandStrings}

(***************************************************************************)
(* Submit requests (the body of a POST).                                   *)
(***************************************************************************)
Config(ff, key) == [formFactor |-> ff, apiKey |-> key, bypassToken |-> None]

DesktopConfig == Some(Config(Some("desktop"), None))
KeyedConfig == Some(Config(Some("desktop"), Some("sk-key")))

\* req.body is a JSON object; urls is missing, a string or an array.
Body(kind, items, config) == [urls |-> [kind |-> kind, items |-> items], config |-> config]

\* Bodies that handleAuditRequest does not accept.
BadBodies ==
    { Body("missing", <<>>, DesktopConfig),
      Body("string", <<>>, DesktopConfig),
      Body("array", <<>>, DesktopConfig),
      Body("array", <<"https://good.example">>, None),
      Body("array", <<"https://good.example">>, Some(Config(None, None))),
      Body("array", <<"not-a-url", "/relative/path">>, DesktopConfig) }

\* Bodies that pass every check.
GoodBodies ==
    { Body("array", <<"https://good.example">>, DesktopConfig),
      Body("array", <<"https://good.example", "not-a-url", "https://slow.example">>, KeyedConfig),
      Body("array", <<"https://good.example", "https://good.example">>,
           Some(Config(Some("mobile"), None))),
      Body("array", <<"https://good.example">>, Some(Config(Some("tablet"), None))) }

Bodies == BadBodies \cup GoodBodies

(***************************************************************************)
(* Thrown values and their classification (auditUrl's catch block).        *)
(***************************************************************************)
\* The error messages of the model, each with those of the substrings "chrome",
\* "Chrome", "timeout" and "ECONNREFUSED" that it contains (includes is case
\* sensitive).  First the messages that the pipeline's steps throw, then messages
\* that contain several of the substrings.
Messages ==
    { <<"No Chrome installations found.", {"Chrome"}>>,
      <<"Navigation timeout exceeded", {"timeout"}>>,
      <<"connect ECONNREFUSED 127.0.0.1", {"ECONNREFUSED"}>>,
      <<"Lighthouse returned no result", {}>>,
      <<"ENOSPC: no space left on device", {}>>,
      <<"Protocol error: Target closed", {}>>,
      <<"ENOENT: no such file or directory, uv_cwd", {}>>,
      <<"failed: chrome Chrome", {"chrome", "Chrome"}>>,
      <<"failed: chrome timeout", {"chrome", "timeout"}>>,
      <<"failed: chrome ECONNREFUSED", {"chrome", "ECONNREFUSED"}>>,
      <<"failed: Chrome timeout", {"Chrome", "timeout"}>>,
      <<"failed: Chrome ECONNREFUSED", {"Chrome", "ECONNREFUSED"}>>,
      <<"failed: timeout ECONNREFUSED", {"timeout", "ECONNREFUSED"}>>,
      <<"failed: chrome Chrome timeout", {"chrome", "Chrome", "timeout"}>>,
      <<"failed: chrome Chrome ECONNREFUSED", {"chrome", "Chrome", "ECONNREFUSED"}>>,
      <<"failed: chrome timeout ECONNREFUSED", {"chrome", "timeout", "ECONNREFUSED"}>>,
      <<"failed: Chrome timeout ECONNREFUSED", {"Chrome", "timeout", "ECONNREFUSED"}>>,
      <<"failed: chrome Chrome timeout ECONNREFUSED", {"chrome", "Chrome", "timeout", "ECONNREFUSED"}>>,
      <<"failed to launch chrome", {"chrome"}>>,
      <<"Navigation Timeout Exceeded", {}>> }

Keywords == [m \in {p[1] : p \in Messages} |-> (CHOOSE p \in Messages : p[1] = m)[2]]

\* error.message.includes(kw)
Includes(m, kw) == kw \in Keywords[m]

Err(m) == [isError |-> TRUE, message |-> m]

ChromeMissing == Err("No Chrome installations found.")
NavTimeout == Err("Navigation timeout exceeded")
ConnRefused == Err("connect ECONNREFUSED 127.0.0.1")
NoResult == Err("Lighthouse returned no result")
DiskFull == Err("ENOSPC: no space left on device")
TargetClosed == Err("Protocol error: Target closed")
CwdGone == Err("ENOENT: no such file or directory, uv_cwd")

\* Mutation of ClassifyError: the timeout test comes first.
ClassifyTimeoutFirst(e) ==
    IF ~e.isError THEN "Unknown error occurred"
    ELSE IF Includes(e.message, "timeout")
        THEN "Request timeout - the audit took too long to complete."
    ELSE IF Includes(e.message, "chrome") \/ Includes(e.message, "Chrome")
        THEN "Chrome browser not available in serverless environment. Please try running locally."
    ELSE IF Includes(e.message, "ECONNREFUSED")
        THEN "Connection refused - unable to connect to the target website."
    ELSE e.message

ClassifyError(e) ==
    IF ~e.isError THEN "Unknown error occurred"
    ELSE IF Includes(e.message, "chrome") \/ Includes(e.message, "Chrome")
        THEN "Chrome browser not available in serverless environment. Please try running locally."
    ELSE IF Includes(e.message, "timeout")
        THEN "Request timeout - the audit took too long to complete."
    ELSE IF Includes(e.message, "ECONNREFUSED")
        THEN "Connection refused - unable to connect to the target website."
    ELSE e.message

\* error instanceof Error ? error.message : 'Unknown error occurred'
MessageOf(e) == IF e.isError THEN e.message ELSE "Unknown error occurred"

(***************************************************************************)
(* Audit results.  A field that is absent in the JavaScript object is      *)
(* absent from the record.                                                 *)
(***************************************************************************)
\* Mutation of FailureResult: the failure also carries an (empty) opportunities list.
FailureResultWithOpportunities(url, msg) ==
    [url |-> url, error |-> msg, opportunities |-> <<>>]

\* return { url, error: errorMessage } and the entry pushed by the loop's catch block
FailureResult(url, msg) == [url |-> url, error |-> msg]

IsFailure(r) == "error" \in DOMAIN r
IsSuccess(r) == "scores" \in DOMAIN r

\* The engine's report: category scores in thousandths (None: absent or null).
EngineReports ==
    { [performance |-> Some(994), accessibility |-> Some(5), bestPractices |-> Some(0),
       seo |-> Some(1000), pwa |-> None,
       audits |-> << [title |-> "a", type |-> "opportunity", numericValue |-> Some(10)],
                     [title |-> "b", type |-> "opportunity", numericValue |-> Some(30)] >>] }

\* Mutation of RoundPct: Math.floor instead of Math.round.
RoundPctTruncates(th) == th \div 10

\* The thousandths th for which the double (th / 1000) * 100 lies just below n + 0.5
\* (0.145 * 100 is 14.499999999999998): all others are within 1e-13 of th / 10.
BelowHalf == {145, 285, 565, 575}

\* Math.round(x * 100) for the double x nearest to th / 1000
RoundPct(th) == IF th \in BelowHalf THEN th \div 10 ELSE (th + 5) \div 10

\* Mutation of MandatoryScore: a missing score counts as a full score.
MandatoryScoreDefaultsToFull(s) == IF s = None THEN 100 ELSE RoundPct(s[1])

\* Math.round((score || 0) * 100)
MandatoryScore(s) == IF s = None THEN 0 ELSE RoundPct(s[1])

\* Mutation of OptionalScore: a truthiness test, for which the score 0 is no score.
OptionalScoreIfTruthy(s) ==
    IF s = None \/ s[1] = 0 THEN [text |-> "N/A"] ELSE [number |-> RoundPct(s[1])]

\* score !== undefined && score !== null ? Math.round(score * 100) : 'N/A'
\* (the reported value is a number or the text 'N/A')
OptionalScore(s) == IF s = None THEN [text |-> "N/A"] ELSE [number |-> RoundPct(s[1])]

Scores(lhr) ==
    [performance |-> MandatoryScore(lhr.performance),
     accessibility |-> MandatoryScore(lhr.accessibility),
     bestPractices |-> MandatoryScore(lhr.bestPractices),
     seo |-> MandatoryScore(lhr.seo),
     pwa |-> OptionalScore(lhr.pwa)]

\* b.numericValue || 0
Impact(a) == IF a.numericValue = None THEN 0 ELSE a.numericValue[1]

\* Mutation of InsertDesc: an element is put before the elements of equal impact.
RECURSIVE InsertBeforeEquals(_, _)
InsertBeforeEquals(x, sorted) ==
    IF sorted = <<>> THEN <<x>>
    ELSE IF Impact(Head(sorted)) > Impact(x)
        THEN <<Head(sorted)>> \o InsertBeforeEquals(x, Tail(sorted))
        ELSE <<x>> \o sorted

\* Array.prototype.sort with (a, b) => impact(b) - impact(a): stable, descending.
RECURSIVE InsertDesc(_, _)
InsertDesc(x, sorted) ==
    IF sorted = <<>> THEN <<x>>
    ELSE IF Impact(Head(sorted)) >= Impact(x)
        THEN <<Head(sorted)>> \o InsertDesc(x, Tail(sorted))
        ELSE <<x>> \o sorted

RECURSIVE SortDesc(_, _)
SortDesc(rest, acc) ==
    IF rest = <<>> THEN acc ELSE SortDesc(Tail(rest), InsertDesc(Head(rest), acc))

IsOpportunity(a) == a.type = "opportunity"

\* .map(opportunity => ({ title, displayValue, numericValue }))
Opportunity(a) == [title |-> a.title, numericValue |-> a.numericValue]

Opportunities(lhr) ==
    LET sorted == SortDesc(SelectSeq(lhr.audits, IsOpportunity), <<>>)
    IN  [k \in 1..Len(sorted) |-> Opportunity(sorted[k])]

\* hostname.replace(/\./g, '-')
createUrlSlug(url) ==
    IF IsValidUrl(url)
    THEN [k \in DOMAIN UrlSyntax[url].hostname |->
            IF UrlSyntax[url].hostname[k] = "." THEN "-" ELSE UrlSyntax[url].hostname[k]]
    ELSE <<"invalid-url">>

deviceSuffix(config) == IF config.formFactor = Some("mobile") THEN "-mobile" ELSE ""

\* `${urlSlug}${deviceSuffix}-${timestamp}.${ext}` under the reports directory,
\* which the pipeline rewrites to /reports (lines 159-163 of the handler).
ReportPath(url, config, ts, ext) ==
    [dir |-> "/reports", slug |-> createUrlSlug(url), suffix |-> deviceSuffix(config),
     timestamp |-> ts, ext |-> ext]

SuccessResult(url, config, ts, lhr) ==
    [url |-> url, scores |-> Scores(lhr), opportunities |-> Opportunities(lhr),
     reportPaths |-> [json |-> ReportPath(url, config, ts, "json"),
                      html |-> ReportPath(url, config, ts, "html")]]

(***************************************************************************)
(* The session store.                                                      *)
(***************************************************************************)
\* Mutation of NewSession: the record starts in the client's initial status.
NewSessionIdle(total) ==
    [status |-> "idle", results |-> <<>>, currentUrl |-> None, progress |-> 0,
     total |-> total, error |-> None, insightsFile |-> None]

\* lines 80-85: { status: 'processing', results: [], progress: 0, total }
NewSession(total) ==
    [status |-> "processing", results |-> <<>>, currentUrl |-> None, progress |-> 0,
     total |-> total, error |-> None, insightsFile |-> None]

\* Mutation of recordProgress: only currentUrl is written, progress is left for later.
recordProgressUrlOnly(s, url, i) == [s EXCEPT !.currentUrl = Some(url)]

\* lines 143-148: currentUrl = url; progress = i
recordProgress(s, url, i) == [s EXCEPT !.currentUrl = Some(url), !.progress = i]

\* Mutation of publishResults: only the newest result is published.
publishLatestOnly(s, results) == [s EXCEPT !.results = <<results[Len(results)]>>]

\* lines 168-172: results = [...results]
publishResults(s, results) == [s EXCEPT !.results = results]

\* Mutation of completeSession: the final update clears progress with currentUrl.
completeSessionClearsProgress(s, results, insightsFile) ==
    [s EXCEPT !.status = "completed", !.results = results, !.currentUrl = None,
              !.progress = 0, !.insightsFile = insightsFile]

\* Mutation of completeSession: currentUrl is left as the loop set it.
completeSessionKeepsUrl(s, results, insightsFile) ==
    [s EXCEPT !.status = "completed", !.results = results,
              !.progress = s.total, !.insightsFile = insightsFile]

\* lines 205-213
completeSession(s, results, insightsFile) ==
    [s EXCEPT !.status = "completed", !.results = results, !.currentUrl = None,
              !.progress = s.total, !.insightsFile = insightsFile]

\* Mutation of failSession: the status is set, the message is not.
failSessionSilently(s, e) == [s EXCEPT !.status = "error"]

\* Mutation of failSession: the message is recorded, the status is left as it is.
failSessionKeepsStatus(s, e) == [s EXCEPT !.error = Some(MessageOf(e))]

\* lines 217-222
failSession(s, e) == [s EXCEPT !.status = "error", !.error = Some(MessageOf(e))]

Terminal == {"completed", "error"}

(***************************************************************************)
(* processAuditAsync: the continuations between its awaits.  Each returns  *)
(* the store and the task record it leaves ([s |-> ..., t |-> ...]).       *)
(* t.i is the loop variable (0-based); t.urls[t.i + 1] is urls[i].         *)
(***************************************************************************)
CurrentUrl(t) == t.urls[t.i + 1]

\* Top of the loop body for index i, up to auditUrl's first await.
BeginUrl(sessions, id, t, i) ==
    [s |-> IF id \in DOMAIN sessions
             THEN [sessions EXCEPT ![id] = recordProgress(@, t.urls[i + 1], i)]
             ELSE sessions,
     t |-> [t EXCEPT !.i = i, !.pc = "launch", !.timestamp = now,
                     !.chrome = FALSE, !.browser = FALSE, !.pending = None,
                     !.attempts[i + 1] = @ + 1]]

\* The final update of the session.
Finish(sessions, id, t, insightsFile) ==
    [s |-> IF id \in DOMAIN sessions
             THEN [sessions EXCEPT ![id] = completeSession(@, t.results, insightsFile)]
             ELSE sessions,
     t |-> [t EXCEPT !.pc = "done",
                     !.ended = IF id \in DOMAIN sessions THEN "completed" ELSE "evicted"]]

\* Mutation of WantsInsights: the API key is not tested.
WantsInsightsAlways(t) == Len(t.results) > 0

\* if (config.apiKey && results.length > 0)
WantsInsights(t) == t.config.apiKey # None /\ Len(t.results) > 0

\* Mutation of AfterLoop: the session is marked completed before the summarizer runs.
AfterLoopCompletesEarly(sessions, id, t) ==
    IF WantsInsights(t)
    THEN [s |-> Finish(sessions, id, t, None).s, t |-> [t EXCEPT !.pc = "insights"]]
    ELSE Finish(sessions, id, t, None)

\* After the loop: the summarizer if an API key was given, else the final update.
AfterLoop(sessions, id, t) ==
    IF WantsInsights(t)
    THEN [s |-> sessions, t |-> [t EXCEPT !.pc = "insights", !.summaryCalls = @ + 1]]
    ELSE Finish(sessions, id, t, None)

\* let i = 0 and the loop test
StartLoop(sessions, id, t) ==
    IF 0 < Len(t.urls)
    THEN BeginUrl(sessions, id, t, 0)
    ELSE AfterLoop(sessions, id, t)

\* i++ and the loop test
NextIteration(sessions, id, t) ==
    IF t.i + 1 < Len(t.urls)
    THEN BeginUrl(sessions, id, t, t.i + 1)
    ELSE AfterLoop(sessions, id, t)

\* auditUrl returned r: results.push(r), publish the partial results
Returned(sessions, id, t, r) ==
    LET t1 == [t EXCEPT !.results = Append(@, r)]
        s1 == IF id \in DOMAIN sessions
                THEN [sessions EXCEPT ![id] = publishResults(@, t1.results)]
                ELSE sessions
    IN  NextIteration(s1, id, t1)

\* The entry pushed by the loop's catch block.
CaughtResult(url, e) == FailureResult(url, MessageOf(e))

\* Mutation of Fatal: the outer catch block only logs.
FatalLogsOnly(sessions, id, t, e) ==
    [s |-> sessions, t |-> [t EXCEPT !.pc = "done", !.ended = "pending"]]

\* The outer catch block of processAuditAsync.
Fatal(sessions, id, t, e) ==
    [s |-> IF id \in DOMAIN sessions
             THEN [sessions EXCEPT ![id] = failSession(@, e)]
             ELSE sessions,
     t |-> [t EXCEPT !.pc = "done",
                     !.ended = IF id \in DOMAIN sessions THEN "error" ELSE "evicted"]]

\* Mutation of Caught: the loop's catch block only logs the error.
CaughtLogsOnly(sessions, id, t, e) ==
    NextIteration(sessions, id, [t EXCEPT !.failed = @ \cup {t.i}])

\* Mutation of Caught: no try/catch around auditUrl, the error reaches the outer catch.
CaughtRethrows(sessions, id, t, e) ==
    Fatal(sessions, id, [t EXCEPT !.failed = @ \cup {t.i}], e)

\* Mutation of Caught: a URL whose audit threw is audited a second time.
CaughtRetries(sessions, id, t, e) ==
    IF t.attempts[t.i + 1] < 2
    THEN BeginUrl(sessions, id, t, t.i)
    ELSE NextIteration(sessions, id,
                       [t EXCEPT !.results = Append(@, CaughtResult(CurrentUrl(t), e)),
                                 !.failed = @ \cup {t.i}])

\* auditUrl threw e: the loop's catch block
Caught(sessions, id, t, e) ==
    NextIteration(sessions, id,
                  [t EXCEPT !.results = Append(@, CaughtResult(CurrentUrl(t), e)),
                            !.failed = @ \cup {t.i}])

\* auditUrl's catch block: the value it will return once finally has run.
ToCatch(t, e) ==
    [t EXCEPT !.pending = Some(FailureResult(CurrentUrl(t), ClassifyError(e))),
              !.pc = "release", !.failed = @ \cup {t.i}]

NewTask(sessionId, body, urls) ==
    [sessionId |-> sessionId, pc |-> "start", urls |-> urls, config |-> body.config[1], i |-> 0, results |-> <<>>,
     timestamp |-> now, chrome |-> FALSE, browser |-> FALSE, pending |-> None,
     lhr |-> None, insights |-> None,
     \* history, for stating properties:
     req |-> body, createdAt |-> now, failed |-> {}, ended |-> "pending",
     summaryFailed |-> {}, navTimedOut |-> {}, navThrew |-> {}, alive |-> {},
     attempts |-> [k \in 1..Len(urls) |-> 0], summaryCalls |-> 0, entered |-> None]

(***************************************************************************)
(* handleAuditRequest                                                      *)
(***************************************************************************)
\* res.status(code).json(...): the status code and, when accepted, the session id.
Reply(code) == Some([code |-> code, sessionId |-> None])

Accepted(sessionId) == Some([code |-> 200, sessionId |-> Some(sessionId)])

\* Mutation of Rejection: the check that some URL is valid is missing.
RejectionSkipsUrlCheck(body) ==
    IF isServerless THEN Reply(501)
    ELSE IF body.urls.kind # "array" \/ Len(body.urls.items) = 0 THEN Reply(400)
    ELSE IF body.config = None \/ body.config[1].formFactor = None THEN Reply(400)
    ELSE None

\* Mutation of Rejection: the serverless check is missing.
RejectionIgnoresPlatform(body) ==
    IF body.urls.kind # "array" \/ Len(body.urls.items) = 0 THEN Reply(400)
    ELSE IF body.config = None \/ body.config[1].formFactor = None THEN Reply(400)
    ELSE IF Len(FilterValid(body.urls.items)) = 0 THEN Reply(400)
    ELSE None

\* The response of a request that is not accepted (None: it is accepted).
Rejection(body) ==
    IF isServerless
        THEN Reply(501)    \* 'Lighthouse audits are not supported on serverless platforms...'
    ELSE IF body.urls.kind # "array" \/ Len(body.urls.items) = 0
        THEN Reply(400)    \* 'URLs array is required'
    ELSE IF body.config = None \/ body.config[1].formFactor = None
        THEN Reply(400)    \* 'Configuration with formFactor is required'
    ELSE IF Len(FilterValid(body.urls.items)) = 0
        THEN Reply(400)    \* 'No valid URLs provided'
    ELSE None

SubmitRejected(body) ==
    /\ Rejection(body) # None
    /\ response' = Rejection(body)
    /\ UNCHANGED <<auditSessions, task, now, lastSweep, isServerless, runtimeAvailable, probe>>

\* The name under which the model keeps a new processAuditAsync invocation: its
\* session id, marked by one more (non-digit) element when an invocation for the
\* same id is already there.
TaskKey(sessionId) ==
    IF sessionId \in DOMAIN task THEN Append(sessionId, Radix) ELSE sessionId

\* Lines 76-94: auditSessions.set(sessionId, ...) (an entry with the same id is
\* overwritten), then processAuditAsync runs up to its first await (or to the end
\* of its outer catch block when initialisation throws), then the 200 response.
StartAudit(body, r, initOk) ==
    LET validUrls == FilterValid(body.urls.items)
        sessionId == generateSessionId(now, r)
        created == (sessionId :> NewSession(Len(validUrls))) @@ auditSessions
        t0 == [NewTask(sessionId, body, validUrls) EXCEPT !.entered = Some(created[sessionId])]
        next == IF initOk THEN StartLoop(created, sessionId, t0)
                ELSE Fatal(created, sessionId, t0, CwdGone)
    IN  /\ auditSessions' = next.s
        /\ task' = (TaskKey(sessionId) :> next.t) @@ task
        /\ response' = Accepted(sessionId)
        /\ UNCHANGED <<now, lastSweep, isServerless, runtimeAvailable, probe>>

\* An accepted submit.  In the one-session model the id is fresh.
SubmitAccepted(body, r, initOk) ==
    /\ Rejection(body) = None
    /\ Cardinality(DOMAIN task) < MaxSessions
    /\ generateSessionId(now, r) \notin DOMAIN auditSessions \cup DOMAIN task
    /\ StartAudit(body, r, initOk)

handleAuditRequest ==
    \E body \in Bodies :
        \/ SubmitRejected(body)
        \/ \E r \in RandStrings, initOk \in BOOLEAN : SubmitAccepted(body, r, initOk)

(***************************************************************************)
(* handleStatusRequest                                                     *)
(***************************************************************************)
\* req.query.sessionId: absent, an array (the parameter given twice) or a string.
Query(kind, value) == [kind |-> kind, value |-> value]

\* The ids that clients poll for: those a submit at StartTime can return.
PolledIds == {generateSessionId(StartTime, r) : r \in RandStrings}

Queries ==
    {Query("missing", <<>>), Query("array", <<>>), Query("string", <<>>)}
        \cup {Query("string", id) : id \in PolledIds}

\* res.status(code).json(...): the status code and, for 200, the session record
\* (query: the request that is answered).
StatusReply(code, q, session) == Some([code |-> code, query |-> q, session |-> session])

\* Mutation of StatusOf: the record is sent without its results.
StatusOfOmitsResults(sessions, q) ==
    IF q.kind # "string" \/ q.value = <<>> THEN StatusReply(400, q, None)
    ELSE IF q.value \notin DOMAIN sessions THEN StatusReply(404, q, None)
    ELSE StatusReply(200, q, Some([sessions[q.value] EXCEPT !.results = <<>>]))

StatusOf(sessions, q) ==
    IF q.kind # "string" \/ q.value = <<>> THEN StatusReply(400, q, None)
    ELSE IF q.value \notin DOMAIN sessions THEN StatusReply(404, q, None)
    ELSE StatusReply(200, q, Some(sessions[q.value]))

handleStatusRequest ==
    \E q \in Queries :
        /\ response' = StatusOf(auditSessions, q)
        /\ UNCHANGED <<auditSessions, task, now, lastSweep, isServerless, runtimeAvailable, probe>>

(***************************************************************************)
(* LighthouseService.auditUrl, one action per await, for the task of id.   *)
(***************************************************************************)
Step(id, next) ==
    /\ auditSessions' = next.s
    /\ task' = [task EXCEPT ![id] = next.t]
    /\ UNCHANGED <<now, lastSweep, isServerless, runtimeAvailable, probe, response>>

Local(id, t) == Step(id, [s |-> auditSessions, t |-> t])

\* await chromeLauncher.launch(...)
Launch(id) ==
    /\ task[id].pc = "launch"
    /\ \/ /\ runtimeAvailable
          /\ Local(id, [task[id] EXCEPT !.chrome = TRUE, !.pc = "connect",
                                        !.alive = @ \cup {task[id].i}])
       \/ ~runtimeAvailable /\ Local(id, ToCatch(task[id], ChromeMissing))

\* await puppeteer.connect(...), newPage, setViewport, setExtraHTTPHeaders
Connect(id) ==
    /\ task[id].pc = "connect"
    /\ \/ Local(id, [task[id] EXCEPT !.browser = TRUE, !.pc = "goto"])
       \/ Local(id, ToCatch(task[id], ConnRefused))

\* Mutation of Goto: a navigation timeout ends the URL's audit with a failure result,
\* the engine is not invoked.
GotoGivesUp(id) ==
    /\ task[id].pc = "goto"
    /\ \E loaded \in NavOutcomes(CurrentUrl(task[id])) :
        IF loaded
        THEN Local(id, [task[id] EXCEPT !.pc = "engine"])
        ELSE Local(id, [task[id] EXCEPT
                            !.navTimedOut = @ \cup {task[id].i},
                            !.pending = Some(FailureResult(CurrentUrl(task[id]),
                                                           ClassifyError(NavTimeout))),
                            !.pc = "release"])

\* Mutation of Goto: no try/catch around page.goto, its timeout reaches auditUrl's
\* catch block.
GotoRethrows(id) ==
    /\ task[id].pc = "goto"
    /\ \E loaded \in NavOutcomes(CurrentUrl(task[id])) :
        IF loaded
        THEN Local(id, [task[id] EXCEPT !.pc = "engine"])
        ELSE Local(id, ToCatch([task[id] EXCEPT !.navTimedOut = @ \cup {task[id].i},
                                                !.navThrew = @ \cup {task[id].i}],
                               NavTimeout))

\* await page.goto(...) inside its own try/catch: a failure is logged and dropped
Goto(id) ==
    /\ task[id].pc = "goto"
    /\ \E loaded \in NavOutcomes(CurrentUrl(task[id])) :
        Local(id, [task[id] EXCEPT !.pc = "engine",
                                   !.navTimedOut = IF loaded THEN @ ELSE @ \cup {task[id].i}])

\* await lighthouse(url, lighthouseConfig)
Engine(id) ==
    /\ task[id].pc = "engine"
    /\ \/ \E lhr \in EngineReports :
            Local(id, [task[id] EXCEPT !.lhr = Some(lhr), !.pc = "save"])
       \/ Local(id, ToCatch(task[id], NoResult))
       \/ Local(id, ToCatch(task[id], NavTimeout))

\* await fs.writeFile(json); await fs.writeFile(html); the success value
Save(id) ==
    LET t == task[id] IN
    /\ t.pc = "save"
    /\ \/ Local(id, [t EXCEPT !.pending =
                        Some(SuccessResult(CurrentUrl(t), t.config, t.timestamp, t.lhr[1])),
                     !.lhr = None, !.pc = "release"])
       \/ Local(id, ToCatch([t EXCEPT !.lhr = None], DiskFull))

\* finally { if (browser) await browser.disconnect(); if (chrome) await chrome.kill() }
\* and the continuation of the loop body once auditUrl has settled.
Release(id) ==
    LET t == task[id]
        released == [t EXCEPT !.browser = FALSE, !.chrome = FALSE, !.pending = None]
    IN
    /\ t.pc = "release"
    /\ \/ Step(id, Returned(auditSessions, t.sessionId, [released EXCEPT !.alive = @ \ {t.i}],
                              t.pending[1]))
       \/ /\ t.browser
          /\ Step(id, Caught(auditSessions, t.sessionId, [released EXCEPT !.chrome = t.chrome],
                            TargetClosed))
       \/ /\ t.chrome
          /\ Step(id, Caught(auditSessions, t.sessionId, [released EXCEPT !.chrome = TRUE],
                            TargetClosed))

(***************************************************************************)
(* The summarizer                                                          *)
(***************************************************************************)
\* The outcomes of openai.chat.completions.create: a completion with content, a
\* completion without content, a rejected call.
ApiOutcomes ==
    {[ok |-> TRUE, content |-> Some("insights")], [ok |-> TRUE, content |-> None],
     [ok |-> FALSE, content |-> None]}

\* generateAIInsights: its catch block returns a text instead of throwing.
generateAIInsights(o) ==
    IF o.ok
    THEN IF o.content # None THEN o.content[1] ELSE "No insights generated"
    ELSE "Error generating AI insights"

\* const insights = await aiService.generateAIInsights(results, config.formFactor)
Insights(id) ==
    /\ task[id].pc = "insights"
    /\ \E o \in ApiOutcomes :
        Local(id, [task[id] EXCEPT !.insights = Some(generateAIInsights(o)),
                                   !.timestamp = now, !.pc = "writeInsights",
                                   !.summaryFailed = IF o.ok THEN @ ELSE @ \cup {"call"}])

InsightsPath(config, ts) ==
    [dir |-> "/reports", name |-> "lighthouse-ai-insights",
     formFactor |-> config.formFactor[1], timestamp |-> ts, ext |-> "txt"]

\* await fs.writeFile(insightsPath, insights), then the final update
WriteInsights(id) ==
    LET t == [task[id] EXCEPT !.insights = None] IN
    /\ task[id].pc = "writeInsights"
    /\ \/ Step(id, Finish(auditSessions, t.sessionId, t, Some(InsightsPath(t.config, t.timestamp))))
       \/ Step(id, Finish(auditSessions, t.sessionId, [t EXCEPT !.summaryFailed = @ \cup {"write"}],
                           None))

(***************************************************************************)
(* The sweeper (setInterval callback) and the clock                        *)
(***************************************************************************)
\* Mutation of Cutoff: the window is added instead of subtracted.
CutoffAdds(t) == t + RetentionWindow

\* const cutoff = Date.now() - (24 * 60 * 60 * 1000)
Cutoff(t) == t - RetentionWindow

Expired(sessionId, t) == ParseInt36(sessionId) < Cutoff(t)

Sweep ==
    /\ auditSessions' = [id \in {x \in DOMAIN auditSessions : ~Expired(x, now)} |->
                            auditSessions[id]]
    /\ lastSweep' = now
    /\ UNCHANGED <<task, now, isServerless, runtimeAvailable, probe, response>>

Tick ==
    /\ now < StartTime + MaxTicks
    /\ now' = now + 1
    /\ UNCHANGED <<auditSessions, task, lastSweep, isServerless, runtimeAvailable, probe, response>>

(***************************************************************************)
(* The system                                                              *)
(***************************************************************************)
Init ==
    /\ auditSessions = <<>>
    /\ task = <<>>
    /\ now = StartTime
    /\ lastSweep = 0
    /\ isServerless \in BOOLEAN
    /\ runtimeAvailable \in BOOLEAN
    /\ response = None
    /\ probe = None

PipelineStep(id) ==
    \/ Launch(id)
    \/ Connect(id)
    \/ Goto(id)
    \/ Engine(id)
    \/ Save(id)
    \/ Release(id)
    \/ Insights(id)
    \/ WriteInsights(id)

Next ==
    \/ handleAuditRequest
    \/ \E id \in DOMAIN task : PipelineStep(id)
    \/ Sweep
    \/ Tick

Spec == Init /\ [][Next]_vars

\* The service with its status polls.
PollNext == Next \/ handleStatusRequest

PollSpec == Init /\ [][PollNext]_vars

(***************************************************************************)
(* The score computation of auditUrl and its success value on their own,   *)
(* over engine reports whose performance score runs through the            *)
(* thousandths and whose other scores may be missing.                      *)
(***************************************************************************)
ScoreReports ==
    {[performance |-> p, accessibility |-> a, bestPractices |-> b,
      seo |-> c, pwa |-> q, audits |-> <<>>] :
        p \in {None} \cup {Some(th) : th \in 0..1000}, q \in {None, Some(0), Some(500)},
        a \in {None, Some(500)}, b \in {None, Some(500)}, c \in {None, Some(500)}}

\* The service at rest.
Idle ==
    /\ auditSessions = <<>>
    /\ task = <<>>
    /\ now = StartTime
    /\ lastSweep = 0
    /\ isServerless = FALSE
    /\ runtimeAvailable = TRUE
    /\ response = None

ScoreInit ==
    /\ Idle
    /\ probe \in {[lhr |-> lhr, scores |-> None, returned |-> None] : lhr \in ScoreReports}

\* const scores = { performance: Math.round(...), ... }
ComputeScores ==
    /\ probe.scores = None
    /\ probe' = [probe EXCEPT !.scores = Some(Scores(probe.lhr))]
    /\ UNCHANGED <<auditSessions, task, now, lastSweep, isServerless, runtimeAvailable,
                   response>>

\* return { url, scores, opportunities, reportPaths }
ReturnSuccess ==
    /\ probe.scores # None /\ probe.returned = None
    /\ probe' = [probe EXCEPT
                    !.returned = Some(SuccessResult("https://good.example", DesktopConfig[1],
                                                    StartTime, probe.lhr))]
    /\ UNCHANGED <<auditSessions, task, now, lastSweep, isServerless, runtimeAvailable,
                   response>>

ScoreNext == ComputeScores \/ ReturnSuccess

ScoreSpec == ScoreInit /\ [][ScoreNext]_vars

(***************************************************************************)
(* Two sessions side by side: two accepted submits of one-URL requests and *)
(* their pipelines, interleaved.  Math.random() may return the same value  *)
(* twice.  The sweep is left out (no session of this model gets old         *)
(* enough).                                                                *)
(***************************************************************************)
MaxPair == 2

PairBodies ==
    {Body("array", <<"https://good.example">>, DesktopConfig),
     Body("array", <<"https://good.example">>, KeyedConfig)}

PairSubmit ==
    \E body \in PairBodies, r \in RandStrings :
        /\ Rejection(body) = None
        /\ Cardinality(DOMAIN task) < MaxPair
        /\ StartAudit(body, r, TRUE)

PairInit == Idle /\ probe = None

PairNext ==
    \/ PairSubmit
    \/ \E k \in DOMAIN task : PipelineStep(k)
    \/ Tick

PairSpec == PairInit /\ [][PairNext]_vars

(***************************************************************************)
(* auditUrl's catch block on its own, over thrown values: an Error with    *)
(* any message of the model, or a value that is not an Error (a thrown     *)
(* string).                                                                *)
(***************************************************************************)
Thrown == {[isError |-> b, message |-> p[1]] : b \in BOOLEAN, p \in Messages}

ClassifyInit ==
    /\ Idle
    /\ probe \in {[url |-> u, thrown |-> e, returned |-> None] :
                      u \in {"https://good.example", "https://slow.example"}, e \in Thrown}

\* catch (error) { ...; return { url, error: errorMessage } }
CatchThrown ==
    /\ probe.returned = None
    /\ probe' = [probe EXCEPT
                    !.returned = Some(FailureResult(probe.url, ClassifyError(probe.thrown)))]
    /\ UNCHANGED <<auditSessions, task, now, lastSweep, isServerless, runtimeAvailable,
                   response>>

ClassifySpec == ClassifyInit /\ [][CatchThrown]_vars

(***************************************************************************)
(* The extraction of opportunities on its own, over the audit lists of up  *)
(* to MaxAudits audits.                                                    *)
(***************************************************************************)
MaxAudits == 3

Audits ==
    [title : {"a", "b"}, type : {"opportunity", "table"},
     numericValue : {None, Some(0), Some(10)}]

AuditLists == UNION {[1..n -> Audits] : n \in 0..MaxAudits}

SortInit ==
    /\ Idle
    /\ probe \in {[audits |-> l, opportunities |-> None] : l \in AuditLists}

\* const opportunities = Object.values(lhr.audits).filter(...).sort(...).map(...)
ExtractOpportunities ==
    /\ probe.opportunities = None
    /\ probe' = [probe EXCEPT !.opportunities = Some(Opportunities(probe))]
    /\ UNCHANGED <<auditSessions, task, now, lastSweep, isServerless, runtimeAvailable,
                   response>>

SortSpec == SortInit /\ [][ExtractOpportunities]_vars

(***************************************************************************)
(* The configuration steps of auditUrl on their own: the headers set on    *)
(* the page and the profile handed to the engine, over configurations with *)
(* and without a bypass token.  Header sets are functions from header      *)
(* names to values.                                                        *)
(***************************************************************************)
BypassHeader == "x-vercel-protection-bypass"

MobileUserAgent == "Mozilla/5.0 (iPhone; CPU iPhone OS 14_7_1 like Mac OS X)"
DesktopUserAgent == "Mozilla/5.0 (Macintosh; Intel Mac OS X 10_15_7)"

\* if (config.bypassToken): undefined and the empty string are falsy
HasBypass(config) == config.bypassToken # None /\ config.bypassToken[1] # ""

\* const baseConfig = { ..., extraHeaders: {} }; if (config.bypassToken)
\* baseConfig.extraHeaders['x-vercel-protection-bypass'] = config.bypassToken
BaseHeaders(config) ==
    IF HasBypass(config) THEN BypassHeader :> config.bypassToken[1] ELSE <<>>

\* Mutation of getLighthouseConfig: the mobile profile does not spread the base
\* headers.
getLighthouseConfigMobileOwnHeaders(config, port) ==
    IF config.formFactor = Some("mobile")
    THEN [port |-> port, preset |-> "mobile", formFactor |-> "mobile",
          throttling |-> [rttMs |-> 150, cpuSlowdownMultiplier |-> 4,
                          requestLatencyMs |-> 150],
          screenEmulation |-> [mobile |-> TRUE, width |-> 375, height |-> 812,
                               deviceScaleFactor |-> 2, disabled |-> FALSE],
          extraHeaders |-> ("User-Agent" :> MobileUserAgent)]
    ELSE [port |-> port, preset |-> "desktop", formFactor |-> "desktop",
          throttling |-> [rttMs |-> 40, cpuSlowdownMultiplier |-> 1,
                          requestLatencyMs |-> 0],
          screenEmulation |-> [mobile |-> FALSE, width |-> 1350, height |-> 940,
                               deviceScaleFactor |-> 1, disabled |-> FALSE],
          extraHeaders |-> ("User-Agent" :> DesktopUserAgent) @@ BaseHeaders(config)]

\* getLighthouseConfig(config, port): { ...baseConfig, ..., extraHeaders:
\* { ...baseConfig.extraHeaders, 'User-Agent': ... } } (the throughput values, which
\* are fractions, are left out)
getLighthouseConfig(config, port) ==
    IF config.formFactor = Some("mobile")
    THEN [port |-> port, preset |-> "mobile", formFactor |-> "mobile",
          throttling |-> [rttMs |-> 150, cpuSlowdownMultiplier |-> 4,
                          requestLatencyMs |-> 150],
          screenEmulation |-> [mobile |-> TRUE, width |-> 375, height |-> 812,
                               deviceScaleFactor |-> 2, disabled |-> FALSE],
          extraHeaders |-> ("User-Agent" :> MobileUserAgent) @@ BaseHeaders(config)]
    ELSE [port |-> port, preset |-> "desktop", formFactor |-> "desktop",
          throttling |-> [rttMs |-> 40, cpuSlowdownMultiplier |-> 1,
                          requestLatencyMs |-> 0],
          screenEmulation |-> [mobile |-> FALSE, width |-> 1350, height |-> 940,
                               deviceScaleFactor |-> 1, disabled |-> FALSE],
          extraHeaders |-> ("User-Agent" :> DesktopUserAgent) @@ BaseHeaders(config)]

\* The configurations and the ports of the launched Chrome.
ProfileConfigs ==
    [formFactor : {Some("desktop"), Some("mobile"), Some("tablet")},
     apiKey : {None, Some("sk-key")},
     bypassToken : {None, Some(""), Some("token-1"), Some("token-2")}]

ChromePorts == {9222, 9223}

ProfileInit ==
    /\ Idle
    /\ probe \in {[config |-> c, port |-> p, pc |-> "headers", pageHeaders |-> <<>>,
                   profile |-> None] : c \in ProfileConfigs, p \in ChromePorts}

\* if (config.bypassToken) await page.setExtraHTTPHeaders({ ... })
SetPageHeaders ==
    /\ probe.pc = "headers"
    /\ probe' = [probe EXCEPT
                    !.pageHeaders = IF HasBypass(probe.config)
                                    THEN BypassHeader :> probe.config.bypassToken[1]
                                    ELSE @,
                    !.pc = "profile"]
    /\ UNCHANGED <<auditSessions, task, now, lastSweep, isServerless, runtimeAvailable,
                   response>>

\* const lighthouseConfig = this.getLighthouseConfig(config, chrome.port)
ResolveProfile ==
    /\ probe.pc = "profile"
    /\ probe' = [probe EXCEPT
                    !.profile = Some(getLighthouseConfig(probe.config, probe.port)),
                    !.pc = "done"]
    /\ UNCHANGED <<auditSessions, task, now, lastSweep, isServerless, runtimeAvailable,
                   response>>

ProfileNext == SetPageHeaders \/ ResolveProfile

ProfileSpec == ProfileInit /\ [][ProfileNext]_vars

(***************************************************************************)
(* The polling client (HomePage.handleRunAudit) against the service: one   *)
(* run of handleRunAudit, the pipeline of the session it starts, and a     *)
(* restart of the server process, which empties the store.  The client's   *)
(* state is the record probe.  A poll request is answered by the server    *)
(* when the interval fires; its response is applied by the client later,   *)
(* in any order with the responses of other polls.                         *)
(***************************************************************************)
MaxInFlight == 2        \* poll requests whose responses have not arrived yet

\* What the client submits: one valid URL, or a list without a valid URL.
ClientBodies ==
    {Body("array", <<"https://good.example">>, DesktopConfig),
     Body("array", <<"not-a-url">>, DesktopConfig)}

\* A ProcessingStatus with its optional fields.
ProcessingStatus(status, currentUrl, progress, totalUrls, error, insightsFile) ==
    [status |-> status, currentUrl |-> currentUrl, progress |-> progress,
     totalUrls |-> totalUrls, error |-> error, insightsFile |-> insightsFile]

\* useState<ProcessingStatus>({ status: 'idle' }), useState<AuditResult[]>([])
ClientIdle ==
    [pc |-> "idle", body |-> None, sessionId |-> None,
     processingStatus |-> ProcessingStatus("idle", None, None, None, None, None),
     results |-> <<>>, pollInterval |-> FALSE, cleanupTimer |-> FALSE, inFlight |-> <<>>,
     \* history, for stating properties:
     polled |-> FALSE, terminalApplied |-> FALSE]

ClientInit == Idle /\ probe = ClientIdle

unchangedServer == UNCHANGED <<auditSessions, task, now, lastSweep, isServerless, runtimeAvailable>>

\* lines 18-32: setProcessingStatus(processing), setResults([]), fetch POST
RunAudit ==
    /\ probe.pc = "idle"
    /\ \E body \in ClientBodies :
        probe' = [probe EXCEPT
                    !.pc = "post", !.body = Some(body),
                    !.processingStatus =
                        ProcessingStatus("processing", None, Some(0),
                                         Some(Len(body.urls.items)), None, None),
                    !.results = <<>>]
    /\ unchangedServer /\ UNCHANGED response

\* The server handles the client's POST.
ServePost ==
    /\ probe.pc = "post" /\ response = None
    /\ \/ SubmitRejected(probe.body[1])
       \/ /\ Rejection(probe.body[1]) = None
          /\ \E r \in RandStrings, initOk \in BOOLEAN : StartAudit(probe.body[1], r, initOk)

\* lines 34-77: the response of the POST arrives.  Not OK: the catch block of
\* handleRunAudit (lines 79-85); OK: setInterval and setTimeout.
ReceivePost ==
    /\ probe.pc = "post" /\ response # None
    /\ probe' =
          IF response[1].code # 200
          THEN [probe EXCEPT
                    !.pc = "failed",
                    !.processingStatus =
                        ProcessingStatus("error", None, None, None,
                                         Some("No valid URLs provided"), None)]
          ELSE [probe EXCEPT !.pc = "polling", !.sessionId = response[1].sessionId,
                             !.pollInterval = TRUE, !.cleanupTimer = TRUE]
    /\ unchangedServer /\ UNCHANGED response

\* The outcome of fetch(`/api/audit?sessionId=...`) for the server's reply r: a
\* response that is ok with its JSON body, a response that is not ok, or (None) a
\* rejected fetch.
OkResponse(session) == [kind |-> "ok", session |-> Some(session)]
NotOkResponse == [kind |-> "notOk", session |-> None]
FetchFailed == [kind |-> "failed", session |-> None]

FetchOutcome(r) == IF r[1].code = 200 THEN OkResponse(r[1].session[1]) ELSE NotOkResponse

\* The interval fires (line 42-44): the GET is sent and handled by the server; the
\* response is on its way, or the fetch will be rejected.
PollFire ==
    /\ probe.pc = "polling" /\ probe.pollInterval
    /\ Len(probe.inFlight) < MaxInFlight
    /\ LET reply == StatusOf(auditSessions, Query("string", probe.sessionId[1])) IN
       \/ /\ response' = reply
          /\ probe' = [probe EXCEPT !.inFlight = Append(@, FetchOutcome(reply)),
                                    !.polled = TRUE]
       \/ /\ response' = response
          /\ probe' = [probe EXCEPT !.inFlight = Append(@, FetchFailed), !.polled = TRUE]
    /\ unchangedServer

\* The in-flight list without its k-th element.
Without(seq, k) == [j \in 1..(Len(seq) - 1) |-> IF j < k THEN seq[j] ELSE seq[j + 1]]

\* lines 48-55: setProcessingStatus({ status: status.status, ... })
Displayed(session) ==
    ProcessingStatus(session.status, session.currentUrl, Some(session.progress),
                     Some(session.total), session.error, session.insightsFile)

\* lines 45-71: the rest of the interval callback for the fetch outcome o
ApplyResponse(c, o) ==
    IF o.kind = "ok"
    THEN LET status == o.session[1].status IN
         [c EXCEPT !.processingStatus = Displayed(o.session[1]),
                   !.results = IF status = "completed" THEN o.session[1].results ELSE @,
                   !.pollInterval = IF status \in Terminal THEN FALSE ELSE @,
                   !.terminalApplied = @ \/ status \in Terminal]
    ELSE IF o.kind = "notOk" THEN c
    ELSE [c EXCEPT !.pollInterval = FALSE,
                   !.processingStatus =
                       ProcessingStatus("error", None, None, None,
                                        Some("Failed to get status updates"), None)]

\* The outcome of one of the pending fetches arrives.
PollDeliver ==
    /\ \E k \in 1..Len(probe.inFlight) :
        probe' = ApplyResponse([probe EXCEPT !.inFlight = Without(@, k)], probe.inFlight[k])
    /\ unchangedServer /\ UNCHANGED response

\* lines 75-77: setTimeout(() => clearInterval(pollInterval), 30 * 60 * 1000); the
\* interval (2 s) has fired before.
CleanupTimeout ==
    /\ probe.cleanupTimer /\ probe.polled
    /\ probe' = [probe EXCEPT !.cleanupTimer = FALSE, !.pollInterval = FALSE]
    /\ unchangedServer /\ UNCHANGED response

\* The server process is restarted: the module is loaded again with an empty Map
\* and the running pipelines are gone.
Restart ==
    /\ DOMAIN task # {}
    /\ auditSessions' = <<>>
    /\ task' = <<>>
    /\ UNCHANGED <<now, lastSweep, isServerless, runtimeAvailable, response, probe>>

ClientStep ==
    \/ RunAudit
    \/ ReceivePost
    \/ PollFire
    \/ PollDeliver
    \/ CleanupTimeout

ClientNext ==
    \/ ClientStep
    \/ ServePost
    \/ \E id \in DOMAIN task : PipelineStep(id)
    \/ Restart

ClientSpec == ClientInit /\ [][ClientNext]_vars

\* Every request is answered or fails, every timer fires, every pending await of the
\* pipeline is resumed; the server need not be restarted.
ClientFairSpec ==
    /\ ClientSpec
    /\ WF_vars(ReceivePost) /\ WF_vars(PollFire) /\ WF_vars(PollDeliver)
    /\ WF_vars(CleanupTimeout)
    /\ WF_vars(ServePost)
    /\ \A id \in AllIds : WF_vars(id \in DOMAIN task /\ PipelineStep(id))

\* Every external call eventually returns or throws: a pending await of a task is
\* eventually resumed.
FairSpec == Spec /\ \A id \in AllIds : WF_vars(id \in DOMAIN task /\ PipelineStep(id))

(***************************************************************************)
(* Properties                                                              *)
(***************************************************************************)
Stored == DOMAIN auditSessions
Started == DOMAIN task

\* C1: in every state a status poll can observe, the length of a session's results
\* list equals its progress value.  (Fails: see the summarizer window and the loop's
\* catch block, which does not publish the results.)
C1_ResultsTrackProgress ==
    \A id \in Stored : Len(auditSessions[id].results) = auditSessions[id].progress

\* C2: once a session's status is completed or error, no step changes its status or
\* any other field of its record; a pipeline step never removes it either.
C2_TerminalIsFinal ==
    [][\A id \in Stored :
         auditSessions[id].status \in Terminal =>
            \/ id \in DOMAIN auditSessions' /\ auditSessions'[id] = auditSessions[id]
            \/ id \notin DOMAIN auditSessions' /\ task' = task]_vars

\* C2 witness: a session ended with status error and a later sweep left it as it was.
C2_Witness ==
    \E id \in Stored :
        /\ auditSessions[id].status = "error"
        /\ lastSweep = now /\ now > task[id].createdAt

\* The accepted URLs of a request, stated from the request alone: the k-th accepted
\* URL is the URL at the k-th smallest index that holds an absolute URL.
ValidIndexes(items) == {k \in 1..Len(items) : UrlSyntax[items[k]].scheme # None}
KthIndex(idx, k) == CHOOSE m \in idx : Cardinality({n \in idx : n < m}) = k - 1
AcceptedCount(req) == Cardinality(ValidIndexes(req.urls.items))
AcceptedUrl(req, k) == req.urls.items[KthIndex(ValidIndexes(req.urls.items), k)]

\* C3: a completed session of N accepted URLs, K of which failed, holds N results in
\* submission order, exactly the K failed ones as failure variants and the others as
\* success variants.
C3_CompletedResults ==
    \A id \in Stored \cap Started :
        auditSessions[id].status = "completed" =>
            LET res == auditSessions[id].results
                t == task[id]
            IN  /\ Len(res) = AcceptedCount(t.req)
                /\ \A j \in 1..Len(res) :
                     /\ res[j].url = AcceptedUrl(t.req, j)
                     /\ IsFailure(res[j]) <=> (j - 1) \in t.failed
                     /\ IsSuccess(res[j]) <=> (j - 1) \notin t.failed
                /\ Cardinality({j \in 1..Len(res) : IsFailure(res[j])}) = Cardinality(t.failed)

\* C3 witness: a completed session with a failed and a successful URL.
C3_Witness ==
    \E id \in Stored :
        /\ auditSessions[id].status = "completed"
        /\ task[id].failed # {}
        /\ Cardinality(task[id].failed) < Len(task[id].urls)

\* C4 as claimed: a pipeline task never ends without its session having reached
\* completed or error.
C4_EndsTerminal == \A id \in Started : task[id].pc = "done" => task[id].ended \in Terminal

\* C4 as amended: a session in status processing eventually reaches completed or
\* error, or has been evicted by the sweeper.
C4_EventuallyEnds ==
    \A id \in AllIds :
        (id \in Stored /\ auditSessions[id].status = "processing")
            ~> (id \notin Stored \/ auditSessions[id].status \in Terminal)

\* C4 witness: a task that ended in the outer catch block, its session in status error.
C4_Witness ==
    \E id \in Stored : task[id].pc = "done" /\ auditSessions[id].status = "error"

\* C5: a failed URL leaves the session out of status error and the other URLs'
\* results as they are: the task still processes every URL and ends the session as
\* completed, also when every URL failed.
C5_FailureIsolated ==
    \A id \in Started :
        LET t == task[id] IN
        t.failed # {} =>
            /\ \A j \in 1..Len(t.results) :
                 /\ t.results[j].url = t.urls[j]
                 /\ (j - 1) \notin t.failed => IsSuccess(t.results[j])
            /\ id \in Stored => auditSessions[id].status # "error"
            /\ t.pc = "done" =>
                 /\ Len(t.results) = Len(t.urls)
                 /\ id \in Stored =>
                      /\ auditSessions[id].status = "completed"
                      /\ auditSessions[id].results = t.results

\* C5 witness: a completed session of two URLs that both failed.
C5_Witness ==
    \E id \in Stored :
        /\ auditSessions[id].status = "completed"
        /\ Len(task[id].urls) = 2
        /\ task[id].failed = {0, 1}

\* C6: the time the sweep reads from a session id is the session's creation time,
\* and once a sweep has run at or after creation time + retention window the session
\* is absent from the store.  (Fails: the sweep parses the whole id, random digits
\* included, and its comparison with the cutoff is strict.)
C6_ExpiredIsAbsent ==
    \A id \in Started :
        /\ ParseInt36(id) = task[id].createdAt
        /\ lastSweep >= task[id].createdAt + RetentionWindow => id \notin Stored

\* C7: before creation time + retention window the session is in the store.
C7_YoungIsPresent ==
    \A id \in Started : now < task[id].createdAt + RetentionWindow => id \in Stored

\* C7 witness: a sweep has run within the retention window of a session that has
\* ended, and the session is still there.
C7_Witness ==
    \E id \in Stored :
        /\ now < task[id].createdAt + RetentionWindow
        /\ lastSweep = now
        /\ auditSessions[id].status \in Terminal

\* The requests C8 is about: urls missing, not a list or empty, config or formFactor
\* missing, or no submitted URL valid.
BadRequest(body) ==
    \/ body.urls.kind # "array"
    \/ body.urls.items = <<>>
    \/ body.config = None
    \/ body.config[1].formFactor = None
    \/ ValidIndexes(body.urls.items) = {}

\* A step in which handleAuditRequest handles body.
Handles(body) ==
    \/ SubmitRejected(body)
    \/ \E r \in RandStrings, initOk \in BOOLEAN : SubmitAccepted(body, r, initOk)

C9_AcceptedUrls ==
    \A id \in Started :
        LET t == task[id] IN
        /\ Len(t.urls) = AcceptedCount(t.req)
        /\ \A k \in 1..Len(t.urls) : t.urls[k] = AcceptedUrl(t.req, k)
        /\ id \in Stored => auditSessions[id].total = AcceptedCount(t.req)

\* C9 witness: a session whose request held an invalid URL between two valid ones.
C9_Witness ==
    \E id \in Stored :
        /\ Len(task[id].urls) = 2
        /\ Len(task[id].req.urls.items) = 3
        /\ auditSessions[id].total = 2

C11_FailedSummaryLeavesNoArtifact ==
    \A id \in Stored \cap Started :
        (task[id].pc = "done" /\ task[id].summaryFailed # {}) =>
            /\ auditSessions[id].status = "completed"
            /\ auditSessions[id].insightsFile = None

\* What two successive polls of the store can see of progress.
ProgressStep ==
    \A id \in DOMAIN auditSessions' :
        /\ auditSessions'[id].progress <= auditSessions'[id].total
        /\ id \in DOMAIN auditSessions =>
              auditSessions[id].progress <= auditSessions'[id].progress

\* C12: from one observable state to the next the progress of a stored session
\* never decreases, and it never exceeds the session's total.
C12_ProgressMonotone == [][ProgressStep]_vars

\* C12 witness: a session of two URLs seen at progress 1 and still processing.
C12_Witness ==
    \E id \in Stored :
        /\ auditSessions[id].status = "processing"
        /\ auditSessions[id].total = 2
        /\ auditSessions[id].progress = 1

IsPrefix(p, q) == Len(p) <= Len(q) /\ \A j \in 1..Len(p) : p[j] = q[j]

\* What two successive polls of the store can see of results.
ResultsStep ==
    \A id \in DOMAIN auditSessions' :
        /\ \A j \in 1..Len(auditSessions'[id].results) :
              auditSessions'[id].results[j].url = AcceptedUrl(task'[id].req, j)
        /\ id \in DOMAIN auditSessions =>
              IsPrefix(auditSessions[id].results, auditSessions'[id].results)

\* C13: from one observable state to the next the results list of a stored session
\* is only extended at its end (the earlier list is a prefix of the later one), and
\* entry j of the list carries the j-th accepted URL of the request.
C13_ResultsOnlyGrow == [][ResultsStep]_vars

\* C13 witness: a processing session whose published list has been extended twice.
C13_Witness ==
    \E id \in Stored :
        /\ auditSessions[id].status = "processing"
        /\ Len(auditSessions[id].results) = 2

\* Every step for URL i other than its navigation succeeded: no error reached a
\* catch block, or the only one that did came from page.goto.
OthersSucceeded(t, i) == i \notin t.failed \/ i \in t.navThrew

FullScoreSet(r) ==
    /\ IsSuccess(r)
    /\ DOMAIN r.scores = {"performance", "accessibility", "bestPractices", "seo", "pwa"}
    /\ \A c \in {"performance", "accessibility", "bestPractices", "seo"} :
          r.scores[c] \in 0..100
    /\ DOMAIN r.scores.pwa \in {{"text"}, {"number"}}

\* C14 as claimed: in a completed session, a URL whose navigation timed out while
\* every other step succeeded is a failure with the timeout text, and a URL that
\* loaded and whose other steps succeeded is a success with a full score set.
C14_NavTimeoutFailsUrl ==
    \A id \in Stored \cap Started :
        auditSessions[id].status = "completed" =>
            \A j \in 1..Len(auditSessions[id].results) :
                OthersSucceeded(task[id], j - 1) =>
                    IF j - 1 \in task[id].navTimedOut
                    THEN auditSessions[id].results[j] =
                            FailureResult(task[id].urls[j], ClassifyError(NavTimeout))
                    ELSE FullScoreSet(auditSessions[id].results[j])

\* C14 as amended: a navigation timeout is absorbed.  In a completed session a URL
\* whose steps other than the navigation all succeeded is a success with a full
\* score set whether or not its navigation timed out; the timeout text is recorded
\* only for a URL one of whose other steps threw.
C14_NavTimeoutAbsorbed ==
    \A id \in Stored \cap Started :
        auditSessions[id].status = "completed" =>
            \A j \in 1..Len(auditSessions[id].results) :
                IF OthersSucceeded(task[id], j - 1)
                THEN FullScoreSet(auditSessions[id].results[j])
                ELSE IsFailure(auditSessions[id].results[j])

\* C14 witness: a completed session whose second URL timed out in navigation and
\* is a success, next to a first URL that loaded and is a success.
C14_Witness ==
    \E id \in Stored \cap Started :
        /\ auditSessions[id].status = "completed"
        /\ task[id].navTimedOut = {1}
        /\ Len(auditSessions[id].results) = 2
        /\ IsSuccess(auditSessions[id].results[1])
        /\ IsSuccess(auditSessions[id].results[2])

IsStatusReply(r) == r # None /\ "query" \in DOMAIN r[1]

\* What a step that sends a status reply does.
PollStep ==
    (response' # response /\ IsStatusReply(response')) =>
        LET q == response'[1].query IN
        /\ auditSessions' = auditSessions
        /\ task' = task
        /\ (q.kind = "string" /\ q.value \in Stored) =>
              /\ response'[1].code = 200
              /\ response'[1].session = Some(auditSessions[q.value])
        /\ (q.kind = "string" /\ q.value # <<>> /\ q.value \notin Stored) =>
              /\ response'[1].code = 404
              /\ response'[1].session = None

\* C15: a poll for an id that is not in the store is answered not-found, a poll for
\* a stored id is answered with the session record as it is in the store, and no
\* poll (whatever its id: stored, unknown, missing, not a string) changes the store.
C15_PollReadsOnly == [][PollStep]_vars

\* C15 witness: a poll answered with the record of a session that has results.
C15_Witness ==
    /\ IsStatusReply(response)
    /\ response[1].code = 200
    /\ Len(response[1].session[1].results) >= 1
    /\ response[1].query.value \in Stored

\* The values of LighthouseConfig.formFactor.
FormFactors == {"desktop", "mobile"}

\* C16 as claimed: every stored session and every audit run belongs to a request
\* whose formFactor is desktop or mobile.
C16_FormFactorIsKnown ==
    \A id \in Stored \cup Started :
        /\ task[id].req.config # None
        /\ task[id].req.config[1].formFactor # None
        /\ task[id].req.config[1].formFactor[1] \in FormFactors

\* Round-half-up of th / 10: the integer n with n - 1/2 <= th / 10 < n + 1/2.
HalfUp(th) == CHOOSE n \in 0..100 : 10 * n - 5 <= th /\ th < 10 * n + 5

\* The performance score computed for an engine report that has one.
Computed == probe.scores # None /\ probe.lhr.performance # None

\* C17 as claimed: the reported score is round-half-up of the fraction times 100.
C17_RoundsHalfUp ==
    Computed => probe.scores[1].performance = HalfUp(probe.lhr.performance[1])

\* C17 as amended: the reported score is an integer in 0..100, equal to
\* round-half-up of the fraction times 100 except for the fractions 0.145, 0.285,
\* 0.565 and 0.575, which are reported one lower (14, 28, 56, 57); 0.994 gives 99,
\* 0.005 gives 1, 0 gives 0, and every fraction in hundredths gives its hundredths.
C17_RoundsDoubleProduct ==
    Computed =>
        LET th == probe.lhr.performance[1]
            s == probe.scores[1].performance
        IN  /\ s \in 0..100
            /\ s = IF th \in {145, 285, 565, 575} THEN HalfUp(th) - 1 ELSE HalfUp(th)
            /\ (th = 994 => s = 99) /\ (th = 5 => s = 1) /\ (th = 0 => s = 0)
            /\ th % 10 = 0 => s = th \div 10

\* C17 witness: the score computed for the fraction 0.005.
C17_Witness == Computed /\ probe.lhr.performance[1] = 5 /\ probe.scores[1].performance = 1

\* The positions of a task inside auditUrl.
InAudit == {"launch", "connect", "goto", "engine", "save", "release"}

\* C19 as claimed: while URL i of a session is being processed, the results of the
\* URLs before it are all in the session's published results list.
C19_PublishedBeforeNext ==
    \A id \in Stored \cap Started :
        task[id].pc \in InAudit =>
            /\ Len(auditSessions[id].results) >= task[id].i
            /\ \A j \in 1..task[id].i : auditSessions[id].results[j] = task[id].results[j]

\* C20 as claimed: the only browser process that can be alive is the one of the URL
\* being audited; none is alive between two URLs or after the loop.
C20_NoBrowserLeftAlive ==
    \A id \in Started :
        task[id].alive \subseteq (IF task[id].pc \in InAudit THEN {task[id].i} ELSE {})

\* C21 as claimed: at no time are two browser processes of one session alive.
C21_OneBrowserAtATime == \A id \in Started : Cardinality(task[id].alive) <= 1

\* The number of auditUrl calls made for each accepted URL when the loop has run
\* through: one each.
OnceEach(t) == \A k \in 1..Len(t.urls) : t.attempts[k] = 1

\* C22 as claimed: when the pipeline of a session has ended, each of its accepted
\* URLs has been audited exactly once.
C22_EachAuditedOnce == \A id \in Started : task[id].pc = "done" => OnceEach(task[id])

\* C22 as amended: no accepted URL is ever audited twice; while the loop is at URL
\* i exactly the URLs up to i have been audited; after the loop each has been
\* audited once; and a pipeline that failed before its loop has audited none.
C22_AuditedOnceInLoop ==
    \A id \in Started :
        LET t == task[id] IN
        \A k \in 1..Len(t.urls) :
            t.attempts[k] =
                IF t.ended = "error" THEN 0
                ELSE IF t.pc \in InAudit /\ k > t.i + 1 THEN 0
                ELSE 1

\* C22 witness: an ended pipeline whose first URL failed and whose two URLs were
\* each audited once.
C22_Witness ==
    \E id \in Started :
        /\ task[id].pc = "done"
        /\ Len(task[id].urls) = 2
        /\ 0 \in task[id].failed
        /\ OnceEach(task[id])

\* C23 as claimed: no two pipeline tasks own the same session id.
C23_DistinctIds ==
    \A k1, k2 \in DOMAIN task : k1 # k2 => task[k1].sessionId # task[k2].sessionId

\* A pipeline step writes no record but the one of its own session id.
WritesOwnRecord ==
    \A k \in DOMAIN task :
        PipelineStep(k) =>
            \A id \in DOMAIN auditSessions \ {task[k].sessionId} :
                id \in DOMAIN auditSessions' /\ auditSessions'[id] = auditSessions[id]

\* Checked next to C23: tasks of different ids never touch each other's record, and
\* two tasks have the same id only if they were submitted in the same millisecond.
PairIsolation ==
    [][/\ WritesOwnRecord
       /\ \A k1, k2 \in DOMAIN task' :
            task'[k1].sessionId = task'[k2].sessionId =>
                task'[k1].createdAt = task'[k2].createdAt]_vars

\* C24: whenever a stored session is processing and has a currentUrl, progress is
\* the index of an accepted URL and currentUrl is the accepted URL at that index.
C24_CurrentUrlAtProgress ==
    \A id \in Stored \cap Started :
        (auditSessions[id].status = "processing" /\ auditSessions[id].currentUrl # None) =>
            /\ auditSessions[id].progress + 1 \in 1..AcceptedCount(task[id].req)
            /\ auditSessions[id].currentUrl[1] =
                  AcceptedUrl(task[id].req, auditSessions[id].progress + 1)

\* C24 witness: a processing session at its second URL, which differs from the first.
C24_Witness ==
    \E id \in Stored \cap Started :
        /\ auditSessions[id].status = "processing"
        /\ auditSessions[id].progress = 1
        /\ auditSessions[id].currentUrl = Some("https://slow.example")

\* C25: the summarizer is invoked at most once per session; when it has been
\* invoked, an API key was supplied and every accepted URL has its result; while
\* it runs the session is not yet completed; without an API key it is never
\* invoked and the session has no insights file.
C25_SummarizerOnceAfterLoop ==
    \A id \in Started :
        LET t == task[id] IN
        /\ t.summaryCalls <= 1
        /\ t.summaryCalls = 1 => t.config.apiKey # None /\ Len(t.results) = Len(t.urls)
        /\ t.pc \in {"insights", "writeInsights"} =>
              /\ t.summaryCalls = 1
              /\ id \in Stored => auditSessions[id].status = "processing"
        /\ t.config.apiKey = None =>
              /\ t.summaryCalls = 0
              /\ id \in Stored => auditSessions[id].insightsFile = None

\* C25 witness: a completed session whose summarizer ran and left its file.
C25_Witness ==
    \E id \in Stored \cap Started :
        /\ task[id].summaryCalls = 1
        /\ auditSessions[id].status = "completed"
        /\ auditSessions[id].insightsFile # None

\* What the step that ends a navigation does, whatever the navigation's outcome.
AfterNavigation ==
    \A id \in DOMAIN task :
        (task[id].pc = "goto" /\ task'[id].pc # "goto") =>
            /\ task'[id].pc = "engine"
            /\ task'[id].i = task[id].i
            /\ task'[id].pending = None
            /\ task'[id].results = task[id].results
            /\ task'[id].failed = task[id].failed
            /\ auditSessions' = auditSessions

\* C26: a navigation that fails or times out is not fatal for its URL: the step
\* that follows it is the engine invocation for the same URL, with no result
\* decided and nothing recorded for the URL, exactly as after a navigation that
\* succeeded.
C26_EngineRunsAfterNavigation == [][AfterNavigation]_vars

\* C26 witness: the engine was invoked for a URL whose navigation had timed out,
\* and its report is about to be saved.
C26_Witness ==
    \E id \in Started :
        /\ task[id].pc = "save"
        /\ task[id].i \in task[id].navTimedOut
        /\ task[id].lhr # None

\* The causes in their order of precedence: the substrings that reveal the cause
\* and the message reported for it.
Causes ==
    << [reveal |-> {"chrome", "Chrome"},
        text |-> "Chrome browser not available in serverless environment. Please try running locally."],
       [reveal |-> {"timeout"},
        text |-> "Request timeout - the audit took too long to complete."],
       [reveal |-> {"ECONNREFUSED"},
        text |-> "Connection refused - unable to connect to the target website."] >>

\* The causes that a message reveals.
Revealed(m) == {c \in 1..Len(Causes) : Causes[c].reveal \cap Keywords[m] # {}}

\* C27: the failure returned for a thrown value carries the URL and one message:
\* for an Error, the text of the first cause (runtime unavailable, then timeout,
\* then connection refused) that its message reveals, or the message itself when
\* it reveals none; for a value that is not an Error, the unknown-error text.
C27_ClassifiedByPrecedence ==
    probe # None /\ "thrown" \in DOMAIN probe /\ probe.returned # None =>
        LET e == probe.thrown
            c == Revealed(e.message)
        IN  probe.returned[1] =
                [url |-> probe.url,
                 error |-> IF ~e.isError THEN "Unknown error occurred"
                           ELSE IF c = {} THEN e.message
                           ELSE Causes[CHOOSE k \in c : \A j \in c : k <= j].text]

\* C27 witness: an Error whose message reveals all three causes is reported as
\* runtime unavailable.
C27_Witness ==
    /\ probe # None /\ "thrown" \in DOMAIN probe /\ probe.returned # None
    /\ probe.thrown.isError
    /\ Revealed(probe.thrown.message) = {1, 2, 3}
    /\ probe.returned[1].error = Causes[1].text

\* C28: a pipeline that failed before its loop has audited no URL, launched no
\* browser and collected no result, and its session, as long as it is stored, has
\* status error, an error message and an empty results list.
C28_FatalBeforeLoop ==
    \A id \in Started :
        task[id].ended = "error" =>
            /\ \A k \in 1..Len(task[id].urls) : task[id].attempts[k] = 0
            /\ task[id].alive = {} /\ ~task[id].chrome
            /\ task[id].results = <<>>
            /\ id \in Stored =>
                  /\ auditSessions[id].status = "error"
                  /\ auditSessions[id].error # None
                  /\ auditSessions[id].results = <<>>

\* C28 witness: a stored session in status error whose request had two valid URLs.
C28_Witness ==
    \E id \in Stored \cap Started :
        /\ auditSessions[id].status = "error"
        /\ task[id].ended = "error"
        /\ Len(task[id].urls) = 2

\* The one-to-one maps of 1..n onto itself.
Orderings(n) == {f \in [1..n -> 1..n] : \A k \in 1..n : \E j \in 1..n : f[j] = k}

\* Where the opportunities of a list of audits stand in it, in increasing order.
OpportunityIndexes(audits) == {k \in 1..Len(audits) : audits[k].type = "opportunity"}

ImpactOf(a) == IF a.numericValue = None THEN 0 ELSE a.numericValue[1]

\* C29: the opportunities of a result are the engine's opportunity audits, each
\* once, in descending order of impact (a missing value counts as 0), and two of
\* equal impact stand in the order in which the engine reported them.
C29_StableDescending ==
    probe # None /\ "audits" \in DOMAIN probe /\ probe.opportunities # None =>
        LET idx == OpportunityIndexes(probe.audits)
            n == Cardinality(idx)
            r == probe.opportunities[1]
        IN  /\ Len(r) = n
            /\ \E f \in Orderings(n) :
                  LET at(k) == probe.audits[KthIndex(idx, f[k])] IN
                  /\ \A k \in 1..n :
                        /\ r[k].title = at(k).title
                        /\ r[k].numericValue = at(k).numericValue
                  /\ \A k \in 1..(n - 1) :
                        \/ ImpactOf(at(k)) > ImpactOf(at(k + 1))
                        \/ ImpactOf(at(k)) = ImpactOf(at(k + 1)) /\ f[k] < f[k + 1]

\* C29 witness: three opportunities, reported as b (no value), a (10), b (10), come
\* out as a, b, b: the two of impact 10 in the engine's order, then the one of
\* impact 0.
C29_Witness ==
    /\ probe # None /\ "audits" \in DOMAIN probe /\ probe.opportunities # None
    /\ probe.audits = << [title |-> "b", type |-> "opportunity", numericValue |-> None],
                         [title |-> "a", type |-> "opportunity", numericValue |-> Some(10)],
                         [title |-> "b", type |-> "opportunity", numericValue |-> Some(10)] >>
    /\ probe.opportunities[1] = << [title |-> "a", numericValue |-> Some(10)],
                                   [title |-> "b", numericValue |-> Some(10)],
                                   [title |-> "b", numericValue |-> None] >>

\* C30: the fifth score of a result is the text N/A exactly when the engine's
\* report has no value for it (absent or null); when the report has a value, 0
\* included, the result has the number: that value times 100, rounded.
C30_FifthScoreNotApplicable ==
    probe # None /\ "lhr" \in DOMAIN probe /\ probe.scores # None =>
        LET given == probe.lhr.pwa
            reported == probe.scores[1].pwa
        IN  /\ given = None <=> reported = [text |-> "N/A"]
            /\ given # None <=> reported \in {[number |-> n] : n \in 0..100}
            /\ given # None => reported.number = HalfUp(given[1])

\* C30 witness: a report whose fifth score is 0 gives the number 0.
C30_Witness ==
    /\ probe # None /\ "lhr" \in DOMAIN probe /\ probe.scores # None
    /\ probe.lhr.pwa = Some(0)
    /\ probe.scores[1].pwa = [number |-> 0]

\* The fields of the two variants of an AuditResult.
SuccessFields == {"url", "scores", "opportunities", "reportPaths"}
FailureFields == {"url", "error"}

OneVariant(r) == DOMAIN r \in {SuccessFields, FailureFields}

\* C31: every result of a session, whether collected by its pipeline, about to be
\* returned by auditUrl or published in the store, is exactly one of the two
\* variants: a success (scores, opportunities and report paths, no error) or a
\* failure (an error, none of the others).
C31_ExactlyOneVariant ==
    /\ \A k \in Started :
          /\ \A j \in 1..Len(task[k].results) : OneVariant(task[k].results[j])
          /\ task[k].pending # None => OneVariant(task[k].pending[1])
    /\ \A id \in Stored :
          \A j \in 1..Len(auditSessions[id].results) :
              OneVariant(auditSessions[id].results[j])

\* C31 witness: a stored session that holds a result of each variant.
C31_Witness ==
    \E id \in Stored :
        /\ \E j \in 1..Len(auditSessions[id].results) :
              DOMAIN auditSessions[id].results[j] = SuccessFields
        /\ \E j \in 1..Len(auditSessions[id].results) :
              DOMAIN auditSessions[id].results[j] = FailureFields

\* The profile resolved for a configuration.
Resolved == probe # None /\ "profile" \in DOMAIN probe /\ probe.profile # None

\* The headers of a header set other than the user agent.
WithoutUserAgent(h) == [n \in DOMAIN h \ {"User-Agent"} |-> h[n]]

\* C32: when a bypass token is supplied (a non-empty string), the extra headers of
\* the resolved profile carry it under the bypass header name, with the token as
\* value, whatever the form factor, and so do the headers set on the page; when
\* none is supplied the header is absent from the profile of either form factor
\* and from the page.  The user agent is the only other extra header.
C32_BypassHeaderInBothProfiles ==
    Resolved =>
        LET token == probe.config.bypassToken
            supplied == token # None /\ token[1] # ""
            headers == probe.profile[1].extraHeaders
            expected == IF supplied THEN BypassHeader :> token[1] ELSE <<>>
        IN  /\ "User-Agent" \in DOMAIN headers
            /\ WithoutUserAgent(headers) = expected
            /\ probe.pageHeaders = expected
            /\ probe.profile[1].formFactor =
                  IF probe.config.formFactor = Some("mobile") THEN "mobile" ELSE "desktop"

\* C32 witness: the mobile profile resolved for a configuration with a token.
C32_Witness ==
    /\ Resolved
    /\ probe.config.formFactor = Some("mobile")
    /\ probe.config.bypassToken = Some("token-2")
    /\ probe.profile[1].extraHeaders[BypassHeader] = "token-2"
    /\ probe.profile[1].screenEmulation.mobile

\* Within the retention window of the session of id.
Young(id) == now < task[id].createdAt + RetentionWindow

\* What a step that answers a submit with a session id, and a step that answers a
\* poll for the id of a young session, do.
SubmitThenPoll ==
    /\ (response' # response /\ response' # None /\ ~IsStatusReply(response')
            /\ response'[1].sessionId # None) =>
          LET id == response'[1].sessionId[1] IN
          /\ id \in DOMAIN auditSessions' /\ id \in DOMAIN task'
          /\ task'[id].entered # None
          /\ task'[id].entered[1].status = "processing"
          /\ task'[id].entered[1].progress = 0
          /\ task'[id].entered[1].results = <<>>
          /\ task'[id].entered[1].error = None
          /\ auditSessions'[id].progress = 0
          /\ auditSessions'[id].results = <<>>
    /\ (response' # response /\ IsStatusReply(response')) =>
          LET q == response'[1].query IN
          (q.kind = "string" /\ q.value \in Started /\ Young(q.value)) =>
              /\ response'[1].code = 200
              /\ response'[1].session # None

\* C33: the record that a submit puts into the store has status processing,
\* progress 0, no results and no error; when the response with the session id is
\* sent the record is in the store; and a poll for that id within the retention
\* window is never answered not-found.
C33_StoredBeforeResponse == [][SubmitThenPoll]_vars

\* C33 witness: a poll for a session that a submit created, answered with its
\* record after a sweep has run.
C33_Witness ==
    /\ IsStatusReply(response)
    /\ response[1].code = 200
    /\ response[1].query.value \in Started
    /\ task[response[1].query.value].entered # None
    /\ lastSweep = now

\* The audit runs that wrote their reports: a task and the index of a success among
\* its results.
WrittenRuns ==
    UNION {{<<k, j>> : j \in {n \in 1..Len(task[k].results) : IsSuccess(task[k].results[n])}} :
              k \in DOMAIN task}

\* C34 as claimed: two distinct audit runs never write their reports to the same
\* path.
C34_DistinctReportPaths ==
    \A a, b \in WrittenRuns :
        a # b =>
            task[a[1]].results[a[2]].reportPaths.json #
                task[b[1]].results[b[2]].reportPaths.json

\* C35: whenever a stored session has status completed, its progress equals its
\* total, its results list has exactly total entries and it has no currentUrl.
C35_CompletedIsFull ==
    \A id \in Stored :
        auditSessions[id].status = "completed" =>
            /\ auditSessions[id].progress = auditSessions[id].total
            /\ Len(auditSessions[id].results) = auditSessions[id].total
            /\ auditSessions[id].currentUrl = None

\* C35 witness: a completed session of two URLs, neither of which failed.
C35_Witness ==
    \E id \in Stored \cap Started :
        /\ auditSessions[id].status = "completed"
        /\ auditSessions[id].total = 2
        /\ auditSessions[id].progress = 2
        /\ task[id].failed = {}

\* C36: a stored session has an error message exactly when its status is error,
\* and it has an insights file only when its status is completed.
C36_ErrorIffStatusError ==
    \A id \in Stored :
        /\ auditSessions[id].error # None <=> auditSessions[id].status = "error"
        /\ auditSessions[id].insightsFile # None => auditSessions[id].status = "completed"

\* C36 witness: a session in status error that carries the message of the error
\* thrown by the pipeline's set-up, and no insights file.
C36_Witness ==
    \E id \in Stored :
        /\ auditSessions[id].status = "error"
        /\ auditSessions[id].error = Some(CwdGone.message)
        /\ auditSessions[id].insightsFile = None

\* The four scores that every result reports as a number.
MandatoryCategories == {"performance", "accessibility", "bestPractices", "seo"}

\* The value returned for an engine report.
ReturnedForReport == probe # None /\ "lhr" \in DOMAIN probe /\ probe.returned # None

\* C39: a report in which one of the four mandatory scores is absent or null still
\* gives a success variant, in which that score is the number 0, the same number
\* that a score of 0 gives; the scores that are there are not affected.
C39_MissingScoreIsZero ==
    ReturnedForReport =>
        LET r == probe.returned[1] IN
        /\ DOMAIN r = SuccessFields
        /\ r.scores = probe.scores[1]
        /\ \A c \in MandatoryCategories :
              /\ probe.lhr[c] = None => r.scores[c] = 0
              /\ probe.lhr[c] = Some(0) => r.scores[c] = 0
              /\ probe.lhr[c] = Some(500) => r.scores[c] = 50

\* C39 witness: a report without performance and seo scores gives a success whose
\* performance and seo scores are 0 next to an accessibility score of 50.
C39_Witness ==
    /\ ReturnedForReport
    /\ probe.lhr.performance = None /\ probe.lhr.seo = None
    /\ probe.lhr.accessibility = Some(500)
    /\ IsSuccess(probe.returned[1])
    /\ probe.returned[1].scores.performance = 0
    /\ probe.returned[1].scores.seo = 0
    /\ probe.returned[1].scores.accessibility = 50

\* C37 as claimed: once the client has applied a poll response with status completed
\* or error, the status it displays never goes back to processing.
C37_TerminalStaysTerminal ==
    [][probe.terminalApplied => probe'.processingStatus.status # "processing"]_vars

\* C38 as claimed: after a successful submit the status that the client displays
\* eventually becomes completed or error.
C38_EventuallyTerminal ==
    (probe.pc = "polling") ~> (probe.processingStatus.status \in Terminal)

====
